---------------------------- MODULE Spec2Model ----------------------------
(***************************************************************************)
(* Model of ConsumerService (src/src/consumer/consumer.service.ts): the    *)
(* SQS consume loop (pollQueue), the event dispatcher (handleUserEvent)    *)
(* writing to a DynamoDB table, and the two read operations                *)
(* (getUserStatus, getEntireUserDetails).                                  *)
(*                                                                         *)
(* A JavaScript object is a function whose domain is the set of its        *)
(* defined properties: a property that is undefined is absent from the     *)
(* domain.  Strings are strings; the empty string is the only falsy one.   *)
(***************************************************************************)
EXTENDS Integers, Sequences, FiniteSets, TLC

(***************************************************************************)
(* Bounds of the model.                                                    *)
(***************************************************************************)
\* Number of identifiers of uuidv4() that reach the store in one behaviour.
MaxUuids == 2
\* Number of handleUserEvent calls in one behaviour.
MaxDispatches == 2
\* Last millisecond of the wall clock.
MaxClock == 1
\* Number of messages producers send to the queue in one behaviour.
MaxMsgs == 2

(***************************************************************************)
(* Program constants.                                                      *)
(***************************************************************************)
\* ReceiveMessageCommand.MaxNumberOfMessages
MaxNumberOfMessages == 10
\* this.pollingInterval, in milliseconds
pollingInterval == 10000

VARIABLES
    table,      \* the DynamoDB table: id -> item
    now,        \* the wall clock, in milliseconds
    nUuid,      \* how many identifiers of uuidv4() were sent to the store
    nDispatched, \* how many times handleUserEvent was called
    last,       \* the last handleUserEvent call: message, table before, result
    queue,      \* the SQS queue: message id -> Body, for the messages not deleted
                \* (Unread until pollQueue first reads the Body)
    nSent,      \* how many messages producers have sent
    pc,         \* position of the pollQueue continuation
    batch,      \* response.Messages of the receive being processed (ReceiptHandles)
    idx,        \* index in batch of the message of the current iteration of the for loop
    trace,      \* what pollQueue did to the messages of the current batch
    deleted,    \* the messages whose DeleteMessageCommand succeeded
    redispatched, \* whether pollQueue handed such a message to handleUserEvent
    written,    \* the message whose dispatch was the last one the store applied
    loopLog,    \* what pollQueue logged when it set the timer that is pending
    timers,     \* the delays of the setTimeout callbacks that are pending
    receives,   \* how many ReceiveMessageCommands are awaiting their answer
    qres        \* the last Query Service call: arguments and outcome

vars == <<table, now, nUuid, nDispatched, last, queue, nSent, pc, batch, idx, trace,
          deleted, redispatched, written, loopLog, timers, receives, qres>>

dispatcherVars == <<table, now, nUuid, nDispatched, last>>
loopVars == <<queue, nSent, pc, batch, idx, trace, deleted, redispatched, written, loopLog,
              timers, receives>>

(***************************************************************************)
(* Values.                                                                 *)
(***************************************************************************)
\* The empty object {}.
EmptyObject == [f \in {} |-> ""]

\* !!obj[f] for a string property: defined and not the empty string.
Truthy(obj, f) == f \in DOMAIN obj /\ obj[f] # ""

\* obj[f] || dflt
OrElse(obj, f, dflt) == IF Truthy(obj, f) THEN obj[f] ELSE dflt

\* new Date(ms).toISOString(), for ms < 1000 (the clock starts at the epoch).
ToISOString(ms) ==
    "1970-01-01T00:00:00."
        \o (IF ms < 10 THEN "00" ELSE IF ms < 100 THEN "0" ELSE "")
        \o ToString(ms) \o "Z"

\* uuidv4(): a random identifier, equal to none drawn before.  n counts the
\* identifiers that reached the store: one drawn for a message that is not a
\* create is dropped unseen.
UuidV4(n) == "uuid-" \o ToString(n + 1)

(***************************************************************************)
(* The store (DynamoDBClient.send).  fault: the call fails for a reason of *)
(* the store's own (unreachable, throttled, rejected).                     *)
(***************************************************************************)
\* PutItemCommand: insert or overwrite under Item.id.
PutItem(tbl, item, fault) ==
    IF fault
    THEN [err |-> "ServiceError", table |-> tbl]
    ELSE [err |-> "",
          table |-> [i \in DOMAIN tbl \cup {item.id} |->
                        IF i = item.id THEN item ELSE tbl[i]]]

\* The update sent without its condition: UpdateItemCommand then upserts.
ConditionExpressionAbsent(tbl, key) == TRUE

\* ConditionExpression: 'attribute_exists(id)'
ConditionExpression(tbl, key) == key \in DOMAIN tbl

\* UpdateItemCommand with UpdateExpression 'SET ...' of the attributes in sets.
UpdateItem(tbl, key, sets, fault) ==
    IF fault
    THEN [err |-> "ServiceError", table |-> tbl]
    ELSE IF ~ConditionExpression(tbl, key)
    THEN [err |-> "ConditionalCheckFailedException", table |-> tbl]
    ELSE LET old == IF key \in DOMAIN tbl THEN tbl[key] ELSE [id |-> key]
             new == [f \in DOMAIN old \cup DOMAIN sets |->
                        IF f \in DOMAIN sets THEN sets[f] ELSE old[f]]
         IN [err |-> "",
             table |-> [i \in DOMAIN tbl \cup {key} |->
                          IF i = key THEN new ELSE tbl[i]]]

(***************************************************************************)
(* handleUserEvent.                                                        *)
(***************************************************************************)
\* A message Body is JSON text, modelled by what JSON.parse makes of it:
\*   json = "none"     no Body (undefined or '')
\*   json = "invalid"  text JSON.parse rejects with a SyntaxError
\*   json = "null"     the text null
\*   json = "object"   the text of the object value
\*   json = "unread"   (in the queue) a Body nothing has read yet
NoBody == [json |-> "none", value |-> EmptyObject]
Unread == [json |-> "unread", value |-> EmptyObject]
BadJson == [json |-> "invalid", value |-> EmptyObject]
NullJson == [json |-> "null", value |-> EmptyObject]
JsonOf(obj) == [json |-> "object", value |-> obj]

\* JSON.parse(message.Body)
JSONParse(text) ==
    IF text.json = "invalid"
    THEN [ok |-> FALSE, isNull |-> FALSE, value |-> EmptyObject]
    ELSE [ok |-> TRUE, isNull |-> text.json = "null", value |-> text.value]

\* The outcome of (a part of) handleUserEvent.
Returned(tbl, calls, logs) ==
    [thrown |-> FALSE, error |-> "", table |-> tbl, calls |-> calls, logs |-> logs]
Thrown(error, tbl, calls, logs) ==
    [thrown |-> TRUE, error |-> error, table |-> tbl, calls |-> calls, logs |-> logs]

\* params.Item with the id taken from the payload when it has one.
CreateItemWithPayloadId(user, uuid, t1, t2) ==
    LET copied == {"firstName", "lastName", "email", "dob"} \cap DOMAIN user
    IN [f \in {"id", "status", "createdAt", "updatedAt"} \cup copied |->
          CASE f = "id" -> OrElse(user, "id", uuid)
            [] f = "status" -> OrElse(user, "status", "active")
            [] f = "createdAt" -> ToISOString(t1)
            [] f = "updatedAt" -> ToISOString(t2)
            [] OTHER -> user[f]]

\* params.Item: marshall({id: uuidv4(), ...}, {removeUndefinedValues: true})
CreateItem(user, uuid, t1, t2) ==
    LET copied == {"firstName", "lastName", "email", "dob"} \cap DOMAIN user
    IN [f \in {"id", "status", "createdAt", "updatedAt"} \cup copied |->
          CASE f = "id" -> uuid
            [] f = "status" -> OrElse(user, "status", "active")
            [] f = "createdAt" -> ToISOString(t1)
            [] f = "updatedAt" -> ToISOString(t2)
            [] OTHER -> user[f]]

\* The create skipped when the table holds a record of the same payload.
CreateBranchDeduplicates(user, tbl, item, fault) ==
    IF \E i \in DOMAIN tbl :
          /\ DOMAIN tbl[i] = DOMAIN item
          /\ \A f \in DOMAIN item \ {"id", "createdAt", "updatedAt"} : tbl[i][f] = item[f]
    THEN Returned(tbl, <<>>, <<<<"log", "created successfully">>>>)
    ELSE LET r == PutItem(tbl, item, fault)
         IN IF r.err = ""
            THEN Returned(r.table, <<"PutItem">>, <<<<"log", "created successfully">>>>)
            ELSE Returned(r.table, <<"PutItem">>,
                          <<<<"error", "Error creating user in DynamoDB">>>>)

\* operation === 'create'
CreateBranch(user, tbl, item, fault) ==
    LET r == PutItem(tbl, item, fault)
    IN IF r.err = ""
       THEN Returned(r.table, <<"PutItem">>, <<<<"log", "created successfully">>>>)
       ELSE Returned(r.table, <<"PutItem">>,
                     <<<<"error", "Error creating user in DynamoDB">>>>)

\* The id check left out.
MissingIdUnchecked(user) == FALSE

\* !user.id
MissingId(user) == ~Truthy(user, "id")

\* Key: marshall({id: user.id})
KeyOf(user) == OrElse(user, "id", "")

\* The update keeping the status of the payload.
UpdateSetsWithPayloadStatus(user, t3) ==
    [firstName |-> OrElse(user, "firstName", ""),
     lastName |-> OrElse(user, "lastName", ""),
     dob |-> OrElse(user, "dob", ""),
     updatedAt |-> ToISOString(t3),
     status |-> OrElse(user, "status", "updated")]

\* The attributes the update operation SETs.
UpdateSets(user, t3) ==
    [firstName |-> OrElse(user, "firstName", ""),
     lastName |-> OrElse(user, "lastName", ""),
     dob |-> OrElse(user, "dob", ""),
     updatedAt |-> ToISOString(t3),
     status |-> "updated"]

\* The status update setting the attributes of the full update as well.
UpdateStatusSetsLikeUpdate(user, t3) ==
    [UpdateSets(user, t3) EXCEPT !.status = OrElse(user, "status", "")]

\* The attributes the updateStatus operation SETs.
UpdateStatusSets(user, t3) ==
    [status |-> OrElse(user, "status", ""),
     updatedAt |-> ToISOString(t3)]

\* The try/catch around the UpdateItemCommand of update and of updateStatus.
SendUpdate(user, tbl, sets, fault, okLog) ==
    LET r == UpdateItem(tbl, KeyOf(user), sets, fault)
    IN IF r.err = ""
       THEN Returned(r.table, <<"UpdateItem">>, <<<<"log", okLog>>>>)
       ELSE Thrown("BadRequestException: Failed to update user", r.table,
                   <<"UpdateItem">>,
                   <<<<"error", "Error updating user in DynamoDB">>>>)

\* operation === 'update'
UpdateBranch(user, tbl, t3, fault) ==
    IF MissingId(user)
    THEN Thrown("Error: Correct ID required for update operation", tbl, <<>>, <<>>)
    ELSE SendUpdate(user, tbl, UpdateSets(user, t3), fault, "updated successfully")

\* operation === 'updateStatus'
UpdateStatusBranch(user, tbl, t3, fault) ==
    IF MissingId(user)
    THEN Thrown("BadRequestException: ID required for status update operation",
                tbl, <<>>, <<>>)
    ELSE SendUpdate(user, tbl, UpdateStatusSets(user, t3), fault,
                    "status updated successfully")

\* The else branch writing the item as a create does.
ElseOperationCreates(user, tbl, item, fault) == CreateBranch(user, tbl, item, fault)

\* The else branch: an operation that is none of the three is logged as a warning.
ElseOperation(user, tbl, item, fault) ==
    Returned(tbl, <<>>, <<<<"warn", "Unknown operation">>>>)

\* !body.user || !body.operation (body.user is an object when defined)
InvalidStructure(body) == "user" \notin DOMAIN body \/ ~Truthy(body, "operation")

\* Whether the call sends params.Item, and with it the identifier, to the store.
SendsItem(message) ==
    /\ message.Body.json = "object"
    /\ ~InvalidStructure(message.Body.value)
    /\ message.Body.value.operation = "create"

\* The body of the outer try block.  uuid: what uuidv4() returns; t1, t2, t3: the
\* clock at the reads for createdAt, for updatedAt and for :updatedAt.
TryBlock(message, tbl, uuid, t1, t2, t3, fault) ==
    IF message.Body.json = "none"
    THEN Thrown("Error: Message body is missing", tbl, <<>>, <<>>)
    ELSE LET parsed == JSONParse(message.Body)
         IN IF ~parsed.ok
            THEN Thrown("SyntaxError", tbl, <<>>, <<>>)
            ELSE IF parsed.isNull
            THEN Thrown("TypeError", tbl, <<>>, <<>>)
            ELSE IF InvalidStructure(parsed.value)
            THEN Thrown("Error: Invalid message structure", tbl, <<>>, <<>>)
            ELSE LET user == parsed.value.user
                     operation == parsed.value.operation
                     item == CreateItem(user, uuid, t1, t2)
                 IN CASE operation = "create" -> CreateBranch(user, tbl, item, fault)
                      [] operation = "update" -> UpdateBranch(user, tbl, t3, fault)
                      [] operation = "updateStatus" ->
                            UpdateStatusBranch(user, tbl, t3, fault)
                      [] OTHER -> ElseOperation(user, tbl, item, fault)

\* The outer catch block rethrowing.
OuterCatchRethrows(r) ==
    IF r.thrown
    THEN [r EXCEPT !.logs = Append(@, <<"error", "Error handling SQS message:">>)]
    ELSE r

\* The outer catch block: log, and return.
OuterCatch(r) ==
    IF r.thrown
    THEN [r EXCEPT !.thrown = FALSE,
                   !.logs = Append(@, <<"error", "Error handling SQS message:">>)]
    ELSE r

\* handleUserEvent(message): thrown tells whether the call rejects; error is the
\* error raised inside it, if any.
HandleUserEvent(message, tbl, uuid, t1, t2, t3, fault) ==
    OuterCatch(TryBlock(message, tbl, uuid, t1, t2, t3, fault))

(***************************************************************************)
(* The messages producers send.                                            *)
(***************************************************************************)
Operations == {"create", "update", "updateStatus", "delete"}

\* firstName, lastName, email, dob of a payload: all of them, some of them, none.
John == [firstName |-> "John", lastName |-> "Doe", email |-> "john@x.com",
         dob |-> "2000-01-01"]
Jane == [firstName |-> "Jane", email |-> "jane@x.com"]

Profiles == {John, Jane, EmptyObject}

\* user.id of a payload: absent, or one of these.
PayloadIds == {UuidV4(n) : n \in 0 .. MaxUuids - 1} \cup {"missing-id", ""}

\* user.status of a payload: absent, or one of these.
PayloadStatuses == {"inactive", ""}

\* obj with property f set to v.
With(obj, f, v) == [g \in DOMAIN obj \cup {f} |-> IF g = f THEN v ELSE obj[g]]

Users ==
    LET withId == Profiles \cup {With(p, "id", i) : p \in Profiles, i \in PayloadIds}
    IN withId \cup {With(u, "status", s) : u \in withId, s \in PayloadStatuses}

WellFormedBodies ==
    {JsonOf([user |-> u, operation |-> op]) : u \in Users, op \in Operations}

MalformedBodies ==
    {NoBody, BadJson, NullJson, JsonOf(EmptyObject)}
        \cup {JsonOf([user |-> u]) : u \in Profiles}
        \cup {JsonOf([operation |-> op]) : op \in Operations \cup {""}}
        \cup {JsonOf([user |-> u, operation |-> ""]) : u \in Profiles}

Bodies == WellFormedBodies \cup MalformedBodies

(***************************************************************************)
(* The dispatcher on its own: handleUserEvent applied to any message.      *)
(***************************************************************************)
NoCall == [called |-> FALSE]

\* One call of handleUserEvent on message, with the clock advancing by d1 between
\* the reads for createdAt and updatedAt, and by d2 up to the read for :updatedAt.
Dispatch(message, d1, d2, fault) ==
    LET r == HandleUserEvent(message, table, UuidV4(nUuid), now, now + d1,
                             now + d1 + d2, fault)
    IN /\ ~last.called
       /\ nDispatched < MaxDispatches
       /\ now + d1 + d2 <= MaxClock
       /\ SendsItem(message) => nUuid < MaxUuids
       /\ table' = r.table
       /\ now' = now + d1 + d2
       /\ nUuid' = IF SendsItem(message) THEN nUuid + 1 ELSE nUuid
       /\ nDispatched' = nDispatched + 1
       /\ last' = [called |-> TRUE, message |-> message, before |-> table,
                   at |-> now, uuid |-> UuidV4(nUuid), fault |-> fault,
                   result |-> r]

DispatchAny ==
    /\ ~last.called
    /\ nDispatched < MaxDispatches
    /\ \E body \in Bodies, d1 \in 0 .. 1, d2 \in 0 .. 1, fault \in BOOLEAN :
          Dispatch([Body |-> body], d1, d2, fault)
    /\ UNCHANGED <<loopVars, qres>>

\* handleUserEvent has returned to its caller.
DispatchReturns ==
    /\ last.called
    /\ last' = NoCall
    /\ UNCHANGED <<table, now, nUuid, nDispatched, loopVars, qres>>

\* The table outlives the process: when the service is constructed it is empty,
\* or holds a record that a create of an earlier run wrote.
StoredTables ==
    {EmptyObject, [i \in {UuidV4(0)} |-> CreateItem(John, UuidV4(0), 0, 0)]}

\* The service constructed on the table tbl.
InitOn(tbl) ==
    /\ table = tbl
    /\ now = 0
    /\ nUuid = Cardinality(DOMAIN tbl)
    /\ nDispatched = 0
    /\ last = NoCall
    /\ queue = EmptyObject
    /\ nSent = 0
    /\ pc = "init"
    /\ batch = <<>>
    /\ idx = 0
    /\ trace = <<>>
    /\ deleted = {}
    /\ redispatched = FALSE
    /\ written = {}
    /\ loopLog = ""
    /\ timers = <<>>
    /\ receives = 0
    /\ qres = NoCall

\* The service constructed on a new table.
Init == InitOn(EmptyObject)

\* The service constructed on a table that may hold a record already.
InitStored == \E tbl \in StoredTables : InitOn(tbl)

(***************************************************************************)
(* pollQueue, and the queue (SQSClient.send).                              *)
(***************************************************************************)
\* The bodies of the messages the loop is run on: one for each path through
\* handleUserEvent.
LoopBodies ==
    { NoBody, BadJson, NullJson, JsonOf(EmptyObject),
      JsonOf([user |-> John]),
      JsonOf([operation |-> "create"]),
      JsonOf([user |-> John, operation |-> "create"]),
      JsonOf([user |-> With(Jane, "id", UuidV4(0)), operation |-> "update"]),
      JsonOf([user |-> Jane, operation |-> "update"]),
      JsonOf([user |-> [id |-> UuidV4(0), status |-> "inactive"],
              operation |-> "updateStatus"]),
      JsonOf([user |-> [id |-> "missing-id"], operation |-> "updateStatus"]),
      JsonOf([user |-> [status |-> "inactive"], operation |-> "updateStatus"]),
      JsonOf([user |-> John, operation |-> "delete"]) }

\* A producer sends a message.  Its Body is the producer's choice; nothing reads
\* it before pollQueue does, and the model draws it then.
SendMessage ==
    /\ nSent < MaxMsgs
    /\ queue' = With(queue, nSent + 1, Unread)
    /\ nSent' = nSent + 1
    /\ UNCHANGED <<dispatcherVars, pc, batch, idx, trace, deleted, redispatched, written,
                   loopLog, timers, receives, qres>>

\* The ways a call of pollQueue ends: what it logs, the timers it sets and the
\* calls of pollQueue it makes.
\* The else branch calling pollQueue at once.
ElseBranchPollsAtOnce ==
    [log |-> "Queue is empty, waiting before next poll...", timers |-> <<>>, polls |-> 1]

\* The else branch: log, setTimeout(() => this.pollQueue(), this.pollingInterval).
ElseBranch ==
    [log |-> "Queue is empty, waiting before next poll...",
     timers |-> <<pollingInterval>>, polls |-> 0]

\* The catch block setting the timer and calling pollQueue as well.
CatchBlockAlsoPolls ==
    [log |-> "Error polling SQS queue:", timers |-> <<pollingInterval>>, polls |-> 1]

\* The catch block only logging.
CatchBlockGivesUp == [log |-> "Error polling SQS queue:", timers |-> <<>>, polls |-> 0]

\* The catch block: log the error, setTimeout(() => this.pollQueue(), ...).
CatchBlock ==
    [log |-> "Error polling SQS queue:", timers |-> <<pollingInterval>>, polls |-> 0]

\* The next call of pollQueue left to a timer.
AfterBatchWaits == [log |-> "", timers |-> <<pollingInterval>>, polls |-> 0]

\* After the for loop: this.pollQueue().
AfterBatch == [log |-> "", timers |-> <<>>, polls |-> 1]

\* The call of pollQueue ends as path says.  outstanding: the receive commands
\* still awaiting their answer; each call of pollQueue sends one more.
EndWith(path, outstanding) ==
    /\ loopLog' = path.log
    /\ timers' = timers \o path.timers
    /\ receives' = outstanding + path.polls
    /\ pc' = IF path.polls > 0 THEN "receiving"
             ELSE IF path.timers # <<>> THEN "waiting" ELSE "stopped"

\* onModuleInit: pollQueue(), which sends the ReceiveMessageCommand.
OnModuleInit ==
    /\ pc = "init"
    /\ pc' = "receiving"
    /\ receives' = receives + 1
    /\ UNCHANGED <<dispatcherVars, queue, nSent, batch, idx, trace, deleted,
                   redispatched, written, loopLog, timers, qres>>

Min(a, b) == IF a < b THEN a ELSE b

\* What a receive may answer with: up to MaxNumberOfMessages messages of the queue.
Batches(q) ==
    LET sizes == 1 .. Min(Cardinality(DOMAIN q), MaxNumberOfMessages)
    IN {s \in UNION {[1 .. n -> DOMAIN q] : n \in sizes} :
          \A i, j \in DOMAIN s : i # j => s[i] # s[j]}

\* response.Messages && response.Messages.length > 0
ReceiveMessages ==
    /\ receives > 0
    /\ batch' \in Batches(queue)
    /\ idx' = 1
    /\ trace' = <<>>
    /\ pc' = "handling"
    /\ receives' = receives - 1
    /\ UNCHANGED <<dispatcherVars, queue, nSent, deleted, redispatched, written, loopLog,
                   timers, qres>>

\* The else branch: no messages; setTimeout(() => this.pollQueue(), pollingInterval).
ReceiveEmpty ==
    /\ receives > 0
    /\ batch' = <<>>
    /\ idx' = 0
    /\ trace' = <<>>
    /\ EndWith(ElseBranch, receives - 1)
    /\ UNCHANGED <<dispatcherVars, queue, nSent, deleted, redispatched, written, qres>>

\* The receive rejects: the catch block logs and sets the timer.
ReceiveFails ==
    /\ receives > 0
    /\ batch' = <<>>
    /\ idx' = 0
    /\ trace' = <<>>
    /\ EndWith(CatchBlock, receives - 1)
    /\ UNCHANGED <<dispatcherVars, queue, nSent, deleted, redispatched, written, qres>>

\* The batch walked from its end.
MessageAtReversed(msgs, i) == msgs[Len(msgs) + 1 - i]

\* for (const message of response.Messages): the message (its ReceiptHandle) of
\* iteration i.
MessageAt(msgs, i) == msgs[i]

\* The Bodies message h may turn out to have: the one read before, if any.
BodiesOf(h) == IF queue[h] = Unread THEN LoopBodies ELSE {queue[h]}

\* Whether handleUserEvent logged an error.
LoggedError(r) == \E i \in DOMAIN r.logs : r.logs[i][1] = "error"

\* Whether the store applied a command of the call.
Applied(r) == r.calls # <<>> /\ ~LoggedError(r)

\* The delete sent only for a message handled without an error.
AfterHandleDeletesOnSuccess(r) ==
    IF r.thrown THEN "catch" ELSE IF LoggedError(r) THEN "next" ELSE "delete"

\* A message whose handling logged an error kept for another try.
AfterHandleRetriesFailed(r) == IF r.thrown \/ LoggedError(r) THEN "catch" ELSE "delete"

\* await this.handleUserEvent(message): a rejection goes to the catch block of
\* pollQueue; otherwise the DeleteMessageCommand of the message is sent.
AfterHandle(r) == IF r.thrown THEN "catch" ELSE "delete"

\* The end of an iteration of the for loop: the next message, or, after the last
\* one, this.pollQueue(), which sends the next ReceiveMessageCommand.
Advance ==
    IF idx < Len(batch)
    THEN idx' = idx + 1 /\ pc' = "handling" /\ UNCHANGED <<loopLog, timers, receives>>
    ELSE idx' = idx /\ EndWith(AfterBatch, receives)

\* One message of the batch: handleUserEvent, then the delete request.
HandleMessage ==
    /\ pc = "handling"
    /\ nDispatched < MaxDispatches
    /\ LET h == MessageAt(batch, idx)
       IN /\ \E body \in BodiesOf(h), d1 \in 0 .. 1, d2 \in 0 .. 1, fault \in BOOLEAN :
                /\ Dispatch([Body |-> body, ReceiptHandle |-> h], d1, d2, fault)
                /\ queue' = [queue EXCEPT ![h] = body]
          /\ redispatched' = (redispatched \/ h \in deleted)
          /\ written' = IF Applied(last'.result) THEN {h} ELSE written
          /\ LET r == last'.result
                 ev == <<"dispatch", h, IF LoggedError(r) THEN "failed" ELSE "ok">>
             IN CASE AfterHandle(r) = "delete" ->
                       /\ trace' = trace \o <<ev, <<"deleteReq", h>>>>
                       /\ pc' = "deleting"
                       /\ UNCHANGED <<idx, loopLog, timers, receives>>
                  [] AfterHandle(r) = "catch" ->
                       /\ trace' = Append(trace, ev)
                       /\ EndWith(CatchBlock, receives)
                       /\ UNCHANGED idx
                  [] OTHER ->
                       /\ trace' = Append(trace, ev)
                       /\ Advance
    /\ UNCHANGED <<nSent, batch, deleted, qres>>

\* The DeleteMessageCommand succeeds: the message leaves the queue.
DeleteSucceeds ==
    /\ pc = "deleting"
    /\ LET h == MessageAt(batch, idx)
       IN /\ queue' = [g \in DOMAIN queue \ {h} |-> queue[g]]
          /\ deleted' = deleted \cup {h}
          /\ trace' = Append(trace, <<"deleted", h>>)
    /\ last' = NoCall
    /\ Advance
    /\ UNCHANGED <<table, now, nUuid, nDispatched, nSent, batch, redispatched, written, qres>>

\* The rejection of the delete swallowed: the for loop goes on.
AfterDeleteRejectedGoesOn == "next"

\* await this.sqsClient.send(new DeleteMessageCommand(...)) rejects: nothing in
\* the for loop catches it, and it goes to the catch block of pollQueue.
AfterDeleteRejected == "catch"

\* The DeleteMessageCommand rejects: the catch block logs and sets the timer.
DeleteFails ==
    /\ pc = "deleting"
    /\ trace' = Append(trace, <<"deleteFailed", MessageAt(batch, idx)>>)
    /\ last' = NoCall
    /\ IF AfterDeleteRejected = "catch"
       THEN EndWith(CatchBlock, receives) /\ UNCHANGED idx
       ELSE Advance
    /\ UNCHANGED <<table, now, nUuid, nDispatched, queue, nSent, batch,
                   deleted, redispatched, written, qres>>

\* A timer fires: a new call of pollQueue, which sends the ReceiveMessageCommand.
TimerFires ==
    /\ timers # <<>>
    /\ timers' = Tail(timers)
    /\ receives' = receives + 1
    /\ pc' = "receiving"
    /\ batch' = <<>>
    /\ idx' = 0
    /\ trace' = <<>>
    /\ loopLog' = ""
    /\ UNCHANGED <<dispatcherVars, queue, nSent, deleted, redispatched, written, qres>>

Next ==
    \/ SendMessage
    \/ OnModuleInit
    \/ ReceiveMessages
    \/ ReceiveEmpty
    \/ ReceiveFails
    \/ HandleMessage
    \/ DeleteSucceeds
    \/ DeleteFails
    \/ TimerFires

Spec == Init /\ [][Next]_vars

\* The loop started on a table that may hold a record already.
SpecStored == InitStored /\ [][Next]_vars

\* The dispatches the messages of the queue still need: one each, but for the
\* message whose delete is awaited.
Needs == Cardinality(DOMAIN queue) - (IF pc = "deleting" THEN 1 ELSE 0)

\* MaxDispatches leaves room for a dispatch more than the queue needs.
Room == MaxDispatches - nDispatched > Needs

\* The producers and the failures of the queue kept within what MaxDispatches
\* lets the loop handle: a message is sent, and a delete fails (so that its
\* message is delivered again), only while there is room for its dispatch.
SendMessageInRoom == Room /\ SendMessage

DeleteFailsInRoom == Room /\ DeleteFails

NextLive ==
    \/ SendMessageInRoom
    \/ OnModuleInit
    \/ ReceiveMessages
    \/ ReceiveEmpty
    \/ ReceiveFails
    \/ HandleMessage
    \/ DeleteSucceeds
    \/ DeleteFailsInRoom
    \/ TimerFires

\* A receive that answers with message h among its messages.
ReceiveWith(h) == ReceiveMessages /\ \E k \in DOMAIN batch' : batch'[k] = h

\* The loop with the scheduling of the runtime (the framework calls
\* onModuleInit, a due timer fires, a call awaited is answered) and with a queue
\* that keeps failing neither its receives nor its deletes: a message that can
\* be received again and again is received, a delete that is tried again and
\* again succeeds.
SpecLive ==
    /\ Init
    /\ [][NextLive]_vars
    /\ WF_vars(OnModuleInit \/ TimerFires \/ HandleMessage
                  \/ ReceiveMessages \/ ReceiveEmpty \/ ReceiveFails)
    /\ SF_vars(DeleteSucceeds)
    /\ \A h \in 1 .. MaxMsgs : SF_vars(ReceiveWith(h))

\* The loop with no more than this of the runtime: the event loop runs the
\* callback of a timer that is due.
SpecTimerFair == Init /\ [][NextLive]_vars /\ WF_vars(TimerFires)

(***************************************************************************)
(* The Query Service: getUserStatus and getEntireUserDetails.              *)
(***************************************************************************)
BadRequestException(message) ==
    [kind |-> "error", name |-> "BadRequestException", message |-> message]

\* The Items of the QueryCommand on 'email-dob-index': the ids of the items whose
\* email and dob are the given ones.
QueryByIndex(tbl, email, dob) ==
    {i \in DOMAIN tbl :
        /\ "email" \in DOMAIN tbl[i] /\ tbl[i].email = email
        /\ "dob" \in DOMAIN tbl[i] /\ tbl[i].dob = dob}

\* The Items of the QueryCommand with KeyConditionExpression 'id = :id'.
QueryByKey(tbl, id) == {i \in DOMAIN tbl : i = id}

\* The try block of both operations after the QueryCommand: items are the ids the
\* store answers with, first is Items[0] when there is one.
QueryTry(tbl, items, first, fault, project) ==
    IF fault
    THEN [thrown |-> TRUE, error |-> "ServiceError"]
    ELSE IF items # {}
    THEN [thrown |-> FALSE,
          value |-> IF project
                    THEN [kind |-> "value",
                          value |-> [id |-> tbl[first].id, status |-> tbl[first].status]]
                    ELSE [kind |-> "value", value |-> [user |-> tbl[first]]]]
    ELSE [thrown |-> TRUE, error |-> "BadRequestException: User not found"]

\* The catch block of both operations.
QueryCatch(error) == BadRequestException("Failed to check user status")

\* Only the email looked at.
MissingArgsEmailOnly(email, dob) == email = ""

\* !email || !dob
MissingArgs(email, dob) == email = "" \/ dob = ""

\* !id
MissingIdArg(id) == id = ""

\* The commands getUserStatus sends to the store.
GetUserStatusQueries(email, dob) ==
    IF MissingArgs(email, dob) THEN <<>> ELSE <<"Query">>

\* The commands getEntireUserDetails sends to the store.
GetEntireUserDetailsQueries(id) == IF MissingIdArg(id) THEN <<>> ELSE <<"Query">>

\* getUserStatus(email, dob)
GetUserStatus(tbl, email, dob, first, fault) ==
    IF MissingArgs(email, dob)
    THEN BadRequestException("Both email and date of birth must be provided.")
    ELSE LET r == QueryTry(tbl, QueryByIndex(tbl, email, dob), first, fault, TRUE)
         IN IF r.thrown THEN QueryCatch(r.error) ELSE r.value

\* getEntireUserDetails(id)
GetEntireUserDetails(tbl, id, first, fault) ==
    IF MissingIdArg(id)
    THEN BadRequestException("Both email and date of birth must be provided.")
    ELSE LET r == QueryTry(tbl, QueryByKey(tbl, id), first, fault, FALSE)
         IN IF r.thrown THEN QueryCatch(r.error) ELSE r.value

\* The arguments of the HTTP surface: a missing query parameter is falsy, like ''.
Emails == {"john@x.com", "jane@x.com", ""}
Dobs == {"2000-01-01", ""}

\* Items[0]: any of the items the store answers with.
Firsts(items) == IF items = {} THEN {""} ELSE items

GetUserStatusCall ==
    /\ \E email \in Emails, dob \in Dobs, fault \in BOOLEAN :
          LET items == QueryByIndex(table, email, dob)
          IN \E first \in Firsts(items) :
                qres' = [called |-> TRUE, op |-> "getUserStatus",
                         args |-> <<email, dob>>, valid |-> email # "" /\ dob # "",
                         fault |-> fault, items |-> items,
                         queries |-> GetUserStatusQueries(email, dob),
                         result |-> GetUserStatus(table, email, dob, first, fault)]
    /\ UNCHANGED <<dispatcherVars, loopVars>>

GetEntireUserDetailsCall ==
    /\ \E id \in PayloadIds, fault \in BOOLEAN :
          LET items == QueryByKey(table, id)
          IN \E first \in Firsts(items) :
                qres' = [called |-> TRUE, op |-> "getEntireUserDetails",
                         args |-> <<id>>, valid |-> id # "",
                         fault |-> fault, items |-> items,
                         queries |-> GetEntireUserDetailsQueries(id),
                         result |-> GetEntireUserDetails(table, id, first, fault)]
    /\ UNCHANGED <<dispatcherVars, loopVars>>

\* The table is filled by the dispatcher, on the messages of LoopBodies.
DispatchSome ==
    /\ ~last.called
    /\ nDispatched < MaxDispatches
    /\ \E body \in LoopBodies, d1 \in 0 .. 1, d2 \in 0 .. 1, fault \in BOOLEAN :
          Dispatch([Body |-> body], d1, d2, fault)
    /\ UNCHANGED <<loopVars, qres>>

NextQuery ==
    \/ DispatchSome
    \/ DispatchReturns
    \/ GetUserStatusCall
    \/ GetEntireUserDetailsCall

SpecQuery == InitStored /\ [][NextQuery]_vars

NextDispatcher == DispatchAny \/ DispatchReturns

SpecDispatcher == InitStored /\ [][NextDispatcher]_vars

(***************************************************************************)
(* Properties.                                                             *)
(***************************************************************************)
\* The last call handled a message that got as far as the branch on operation op.
LastIs(op) ==
    /\ last.called
    /\ last.message.Body.json = "object"
    /\ ~InvalidStructure(last.message.Body.value)
    /\ last.message.Body.value.operation = op

\* The user object of the last message.
LastUser == last.message.Body.value.user

\* The last message names a record that existed when it was handled.
LastHitsRecord == "id" \in DOMAIN LastUser /\ LastUser.id \in DOMAIN last.before

\* Every record but the one under id is as it was before the last call.
OthersUnchanged(id) ==
    /\ DOMAIN table \ {id} = DOMAIN last.before \ {id}
    /\ \A i \in DOMAIN last.before \ {id} : table[i] = last.before[i]

\* Attribute f of record id is as it was before the last call: absent or the same.
AttributeUnchanged(id, f) ==
    /\ f \in DOMAIN table[id] <=> f \in DOMAIN last.before[id]
    /\ f \in DOMAIN last.before[id] => table[id][f] = last.before[id][f]

\* The timestamps the clock showed during the last call.
LastClockReads == {ToISOString(t) : t \in last.at .. now}

\* How many events of kind ev the current batch's trace holds for message h.
Count(ev, h) ==
    Cardinality({i \in DOMAIN trace : trace[i][1] = ev /\ trace[i][2] = h})

C2_OneDeletePerDispatch ==
    \A h \in 1 .. MaxMsgs :
        /\ Count("dispatch", h) <= 1
        /\ Count("deleteReq", h) = Count("dispatch", h)
        /\ h \in deleted => h \notin DOMAIN queue
        /\ ~redispatched

\* A message whose handling failed (a store error, a rejected update, a
\* malformed body) was deleted, and the loop went on to the next message.
C2_Witness ==
    \E i \in DOMAIN trace :
        /\ trace[i][1] = "dispatch"
        /\ trace[i][3] = "failed"
        /\ i + 3 <= Len(trace)
        /\ trace[i + 2] = <<"deleted", trace[i][2]>>
        /\ trace[i][2] \in deleted
        /\ trace[i + 3][1] = "dispatch"

\* C3: Within a batch the messages are handled in receipt order, one at a time:
\* the k-th dispatch is of the k-th message and starts only when the delete of
\* the message before it has completed; a delete request follows the dispatch of
\* its message, a delete answer its request, and a failed delete ends the
\* iteration; at most one message is between dispatch and delete completion.
C3_SequentialInReceiptOrder ==
    /\ \A i \in DOMAIN trace :
          LET k == (i + 2) \div 3
          IN /\ k \in DOMAIN batch
             /\ trace[i][2] = batch[k]
             /\ trace[i][1] \in
                   CASE i % 3 = 1 -> {"dispatch"}
                     [] i % 3 = 2 -> {"deleteReq"}
                     [] OTHER -> IF i = Len(trace)
                                 THEN {"deleted", "deleteFailed"} ELSE {"deleted"}
    /\ Cardinality({h \in 1 .. MaxMsgs :
                       Count("dispatch", h) > Count("deleted", h) + Count("deleteFailed", h)})
          <= 1

\* A batch of two messages was handled to its end.
C3_Witness ==
    /\ Len(batch) >= 2
    /\ Len(trace) = 3 * Len(batch)
    /\ trace[Len(trace)][1] = "deleted"
    /\ pc = "receiving"

\* C4: An update or updateStatus message whose user.id matches no existing
\* record leaves the store exactly as it was: no record created, none modified.
C4_UpdateOfMissingRecordChangesNothing ==
    ((LastIs("update") \/ LastIs("updateStatus")) /\ ~LastHitsRecord)
        => table = last.before

\* The store answered an update of a missing record: the guard rejected it.
C4_Witness ==
    /\ LastIs("update")
    /\ Truthy(LastUser, "id")
    /\ ~LastHitsRecord
    /\ ~last.fault
    /\ last.before # EmptyObject
    /\ last.result.calls = <<"UpdateItem">>

\* C5: An updateStatus message applied to an existing record changes only its
\* status (the payload's, or the empty string when absent) and its updatedAt;
\* its other attributes and every other record are unchanged.
C5_UpdateStatusFrame ==
    (LastIs("updateStatus") /\ LastHitsRecord /\ ~last.fault) =>
        LET id == LastUser.id
        IN /\ OthersUnchanged(id)
           /\ id \in DOMAIN table
           /\ table[id].status =
                 (IF "status" \in DOMAIN LastUser THEN LastUser.status ELSE "")
           /\ table[id].updatedAt \in LastClockReads
           /\ \A f \in {"id", "firstName", "lastName", "dob", "email", "createdAt"} :
                 AttributeUnchanged(id, f)
           /\ DOMAIN table[id] = DOMAIN last.before[id]

\* A status update was applied to one of two records, with a payload carrying a
\* first name other than the record's.
C5_Witness ==
    /\ LastIs("updateStatus")
    /\ LastHitsRecord
    /\ ~last.fault
    /\ Cardinality(DOMAIN last.before) >= 2
    /\ "firstName" \in DOMAIN LastUser
    /\ "firstName" \in DOMAIN last.before[LastUser.id]
    /\ LastUser.firstName # last.before[LastUser.id].firstName
    /\ table # last.before

\* C6: An update message applied to an existing record sets its status to
\* "updated" whatever the payload's status, overwrites firstName, lastName and
\* dob from the payload (the empty string for one the payload lacks) and
\* refreshes updatedAt; its id, email and createdAt and every other record are
\* unchanged.
C6_UpdateFrame ==
    (LastIs("update") /\ LastHitsRecord /\ ~last.fault) =>
        LET id == LastUser.id
        IN /\ OthersUnchanged(id)
           /\ id \in DOMAIN table
           /\ table[id].status = "updated"
           /\ \A f \in {"firstName", "lastName", "dob"} :
                 table[id][f] = (IF f \in DOMAIN LastUser THEN LastUser[f] ELSE "")
           /\ table[id].updatedAt \in LastClockReads
           /\ \A f \in {"id", "email", "createdAt"} : AttributeUnchanged(id, f)

\* An update was applied to one of two records, with a payload carrying a status
\* and an email other than the record's.
C6_Witness ==
    /\ LastIs("update")
    /\ LastHitsRecord
    /\ ~last.fault
    /\ Cardinality(DOMAIN last.before) >= 2
    /\ Truthy(LastUser, "status")
    /\ "email" \in DOMAIN LastUser
    /\ "email" \in DOMAIN last.before[LastUser.id]
    /\ LastUser.email # last.before[LastUser.id].email
    /\ table[LastUser.id].updatedAt # last.before[LastUser.id].updatedAt

\* What a successful create leaves in the store, but for the status: one new
\* record, under the generated id, which no record had; every record that
\* existed is unchanged.
CreateAddsOneRecord ==
    /\ last.uuid \notin DOMAIN last.before
    /\ DOMAIN table = DOMAIN last.before \cup {last.uuid}
    /\ table[last.uuid].id = last.uuid
    /\ \A i \in DOMAIN last.before : table[i] = last.before[i]

\* C7 (as stated): a valid create whose write succeeds adds exactly one record
\* under a fresh id, ignoring the payload's id, with the payload's status, or
\* "active" when the payload has none; no existing record is changed.
C7_CreateAsStated ==
    (LastIs("create") /\ ~last.fault) =>
        /\ CreateAddsOneRecord
        /\ table[last.uuid].status =
              (IF "status" \in DOMAIN LastUser THEN LastUser.status ELSE "active")

\* C7 (amended): as stated, with the status "active" also when the payload's
\* status is the empty string.
C7_CreateAmended ==
    (LastIs("create") /\ ~last.fault) =>
        /\ CreateAddsOneRecord
        /\ table[last.uuid].status =
              (IF "status" \in DOMAIN LastUser /\ LastUser.status # ""
               THEN LastUser.status ELSE "active")

\* A create whose payload names the id of an existing record was written.
C7_Witness ==
    /\ LastIs("create")
    /\ ~last.fault
    /\ LastHitsRecord
    /\ Truthy(LastUser, "status")
    /\ Cardinality(DOMAIN table) = 2

\* C8: Every record written by a create has createdAt equal to updatedAt,
\* however the clock advances during the dispatch.
C8_CreatedAtEqualsUpdatedAt ==
    (LastIs("create") /\ ~last.fault) =>
        table[last.uuid].createdAt = table[last.uuid].updatedAt

\* C9: An update or updateStatus message without user.id issues no store call,
\* is flagged as failed (an error is raised, and logged as an error), and
\* leaves the store unchanged.
C9_MissingIdNoStoreCall ==
    ((LastIs("update") \/ LastIs("updateStatus")) /\ ~Truthy(LastUser, "id")) =>
        /\ last.result.calls = <<>>
        /\ table = last.before
        /\ last.result.error # ""
        /\ \E i \in DOMAIN last.result.logs : last.result.logs[i][1] = "error"

\* A status update without id was handled while the store held a record.
C9_Witness ==
    /\ LastIs("updateStatus")
    /\ "id" \notin DOMAIN LastUser
    /\ last.before # EmptyObject

\* The outcome of the last Query Service call had the store call failed.
LookupFailed ==
    IF qres.op = "getUserStatus"
    THEN GetUserStatus(table, qres.args[1], qres.args[2], "", TRUE)
    ELSE GetEntireUserDetails(table, qres.args[1], "", TRUE)

\* C10: A lookup whose query succeeds with zero matching records fails with a
\* not-found error the caller can tell apart from the lookup-failed error of a
\* failing store call.
C10_NotFoundIsDistinct ==
    (qres.called /\ qres.valid /\ ~qres.fault /\ qres.items = {}) =>
        /\ qres.result.kind = "error"
        /\ qres.result # LookupFailed

BatchDone ==
    /\ batch # <<>>
    /\ Len(trace) = 3 * Len(batch)
    /\ trace[Len(trace)][1] = "deleted"

Continuations ==
    receives + Len(timers) + (IF pc \in {"handling", "deleting"} THEN 1 ELSE 0)

\* C13: The loop never stops and raises nothing past itself: a failing receive
\* is caught and logged and leaves a timer pending, some continuation of the
\* loop always exists, and with the timer firing when due every pending timer
\* leads to another receive call, whatever failed before.
C13_LoopNeverStops ==
    /\ [](pc # "init" => (pc # "stopped" /\ Continuations >= 1))
    /\ [][ReceiveFails =>
             (loopLog' = "Error polling SQS queue:" /\ timers' # <<>>)]_vars
    /\ (timers # <<>>) ~> (receives > 0)

\* A receive failed while messages were waiting in the queue.
C13_Witness ==
    /\ loopLog = "Error polling SQS queue:"
    /\ batch = <<>>
    /\ timers # <<>>
    /\ DOMAIN queue # {}
    /\ nDispatched > 0

\* C17: Once started the loop has exactly one continuation at any time: one
\* receive call awaiting its answer, or one batch being processed, or one timer
\* pending; never two receive calls, never a receive or a timer beside a batch
\* being processed, on the error paths as on the others.
C17_SingleContinuation ==
    IF pc = "init" THEN Continuations = 0 ELSE Continuations = 1

\* The catch block ran on a failed delete, and its timer is the one continuation.
C17_Witness ==
    /\ loopLog = "Error polling SQS queue:"
    /\ Len(timers) = 1
    /\ receives = 0
    /\ Len(batch) = 1
    /\ trace # <<>>
    /\ trace[Len(trace)][1] = "deleteFailed"

\* The BadRequestExceptions handleUserEvent raises.
DispatcherBadRequests ==
    {"BadRequestException: Failed to update user",
     "BadRequestException: ID required for status update operation"}

\* C14: handleUserEvent rejects with a BadRequestException to its caller when
\* the parsed body has neither user nor operation, and when the operation is
\* update and user.id is absent.
C14_RejectsWithBadRequest ==
    (/\ last.called
     /\ \/ last.message.Body = JsonOf(EmptyObject)
        \/ LastIs("update") /\ "id" \notin DOMAIN LastUser)
        => (last.result.thrown /\ last.result.error \in DispatcherBadRequests)

\* C15: getUserStatus called with an empty or missing email or dob, and
\* getEntireUserDetails called with an empty or missing id, fail with the
\* invalid-input error and send no query to the store.
C15_InvalidInputNoQuery ==
    (qres.called /\ ~qres.valid) =>
        /\ qres.result =
              BadRequestException("Both email and date of birth must be provided.")
        /\ qres.queries = <<>>

\* getUserStatus was called with an email and no dob, on a table holding a
\* record, while the store is failing.
C15_Witness ==
    /\ qres.called
    /\ qres.op = "getUserStatus"
    /\ qres.args[1] # ""
    /\ qres.args[2] = ""
    /\ qres.fault
    /\ table # EmptyObject

\* A message with no Body, with a Body that is not the JSON text of an object,
\* with a parsed body lacking user or lacking operation, or with an operation
\* that is none of create, update, updateStatus.
Malformed(body) ==
    \/ body.json # "object"
    \/ "user" \notin DOMAIN body.value
    \/ "operation" \notin DOMAIN body.value
    \/ body.value.operation \notin {"create", "update", "updateStatus"}

\* C16: A message with no body, an unparsable body, a body lacking user or
\* lacking operation, or an operation that is none of the three reaches the
\* store with no command and leaves it unchanged, and the loop goes on to send
\* the delete request of that message.
C16_MalformedTouchesNothing ==
    (last.called /\ Malformed(last.message.Body)) =>
        /\ last.result.calls = <<>>
        /\ table = last.before
        /\ pc = "deleting"
        /\ trace # <<>>
        /\ trace[Len(trace)] = <<"deleteReq", last.message.ReceiptHandle>>

\* A message with a user and no operation was handled while the store held a
\* record, and its delete request is out.
C16_Witness ==
    /\ last.called
    /\ last.message.Body = JsonOf([user |-> John])
    /\ table # EmptyObject
    /\ pc = "deleting"

\* C18: A delete call that fails does not stop the loop: the error is logged by
\* the catch block, the messages of the batch after the one whose delete failed
\* are not dispatched and get no delete request in that iteration and are still
\* in the queue, and the one continuation left is a timer of pollingInterval,
\* so that no receive is issued before it fires.
C18_FailedDeleteEndsIteration ==
    (trace # <<>> /\ trace[Len(trace)][1] = "deleteFailed") =>
        /\ loopLog = "Error polling SQS queue:"
        /\ timers = <<pollingInterval>>
        /\ receives = 0
        /\ pc = "waiting"
        /\ trace[Len(trace)][2] = batch[idx]
        /\ \A k \in idx + 1 .. Len(batch) :
              /\ Count("dispatch", batch[k]) = 0
              /\ Count("deleteReq", batch[k]) = 0
              /\ batch[k] \in DOMAIN queue

\* The delete of the first message of a batch of two failed.
C18_Witness ==
    /\ Len(batch) = 2
    /\ idx = 1
    /\ trace # <<>>
    /\ trace[Len(trace)][1] = "deleteFailed"
    /\ batch[2] \in DOMAIN queue

\* Records r1 and r2 have the same attributes, with the same values but for
\* those in fields.
SameApartFrom(r1, r2, fields) ==
    /\ DOMAIN r1 = DOMAIN r2
    /\ \A f \in DOMAIN r1 \ fields : r1[f] = r2[f]

\* C19: Nothing deduplicates.  When a message is dispatched again after the
\* store applied its first dispatch (its delete failed), with no other write
\* in between: a create adds, unless the store fails, a second record of the
\* same payload under a new id, every record there staying as it was; an
\* update or updateStatus leaves every record as it was apart from updatedAt.
C19_NoDeduplication ==
    [][ (/\ ~last.called
         /\ last'.called
         /\ last'.message.ReceiptHandle \in written) =>
           LET op == last'.message.Body.value.operation
               new == last'.uuid
           IN IF op = "create"
              THEN /\ \A i \in DOMAIN table : i \in DOMAIN table' /\ table'[i] = table[i]
                   /\ ~last'.fault =>
                         /\ new \notin DOMAIN table
                         /\ DOMAIN table' = DOMAIN table \cup {new}
                         /\ \E i \in DOMAIN table :
                               SameApartFrom(table[i], table'[new],
                                             {"id", "createdAt", "updatedAt"})
                   /\ last'.fault => table' = table
              ELSE /\ DOMAIN table' = DOMAIN table
                   /\ \A i \in DOMAIN table :
                         SameApartFrom(table[i], table'[i], {"updatedAt"}) ]_vars

\* The one message sent was a create, and its two dispatches left two records.
C19_Witness ==
    /\ nSent = 1
    /\ nDispatched = 2
    /\ last.called
    /\ LastIs("create")
    /\ last.message.ReceiptHandle \in written
    /\ Cardinality(DOMAIN last.before) = 1
    /\ Cardinality(DOMAIN table) = 2

\* The one message sent was an update of a stored record, applied twice, at
\* different times.
UpdateAppliedTwice ==
    /\ nSent = 1
    /\ nDispatched = 2
    /\ last.called
    /\ LastIs("update")
    /\ ~last.fault
    /\ last.message.ReceiptHandle \in written
    /\ table # last.before

\* C20: With receives and deletes that do not fail for ever, every message in
\* the queue is in the end deleted, and it is deleted only after a dispatch in
\* the same iteration, whatever the messages before it are and however their
\* handling ends: no message keeps the loop, or the messages behind it, waiting
\* for ever.
C20_EveryMessageHandledAndDeleted ==
    /\ \A h \in 1 .. MaxMsgs : (h \in DOMAIN queue) ~> (h \in deleted)
    /\ [][\A h \in 1 .. MaxMsgs :
             (h \notin deleted /\ h \in deleted') => Count("dispatch", h) = 1]_vars

\* Two messages were sent; the first was handled with an error, and both have
\* been deleted.
C20_Witness ==
    /\ nSent = 2
    /\ deleted = {1, 2}
    /\ Len(batch) = 2
    /\ trace # <<>>
    /\ trace[1][3] = "failed"

=============================================================================
